---- MODULE Spec2Model ----
(***************************************************************************)
(* examples/timit.py: main() as a state machine.                           *)
(*                                                                         *)
(* A run is one call of main(): parse the command line, look the three     *)
(* dispatch options up in their tables, load and normalise the dataset,    *)
(* build the loss, assemble model / evaluator / learning rule / trainer,   *)
(* train, evaluate, persist.  The neko library and timit_tools are         *)
(* external: a call into them either returns a value chosen by the         *)
(* environment or raises, and main() catches nothing.                      *)
(*                                                                         *)
(* Strings that the script transforms (str.lower() on the dispatch         *)
(* options, int() / float() in argparse) are sequences of one-character    *)
(* strings, so that the transformation is computed.  float values are      *)
(* fixed-point numbers in units of 10^-5.                                  *)
(***************************************************************************)
EXTENDS Integers, Sequences, FiniteSets, TLC

VARIABLES
    argv,             \* the command line: supplied option -> raw token
    pc,               \* position of main()
    error,            \* the uncaught exception that ended the run, or NoError
    heap,             \* object id -> mapping (the Namespace's __dict__ lives here)
    args,             \* object id of args.__dict__ (0 before parse_args returns)
    layer,            \* line 39
    learning_rule,    \* line 40
    n,                \* line 41: the backend module
    dataset,          \* line 44
    x_train, y_train, x_test, y_test,      \* lines 46-53
    loss,             \* lines 55-65
    regularization_fn,\* line 57
    rnn,              \* line 66
    evaluated_model,  \* line 68
    algo,             \* line 69
    trainer,          \* line 75
    train_calls,      \* the calls of trainer.train so far, in order
    evaluate_calls,   \* the calls of evaluated_model.evaluate so far, in order
    training_log,     \* line 76
    test_result,      \* line 78
    completion_time,  \* line 80
    task_log,         \* line 81: object id of the mapping vars(args) returned
    files,            \* file name -> pickled content
    trace             \* the stages completed so far, in order

vars == <<argv, pc, error, heap, args, layer, learning_rule, n, dataset,
          x_train, y_train, x_test, y_test, loss, regularization_fn, rnn,
          evaluated_model, algo, trainer, train_calls, evaluate_calls,
          training_log, test_result, completion_time, task_log, files, trace>>

None == "None"
NoError == [at |-> "none", kind |-> "none"]

-----------------------------------------------------------------------------
(* Characters and str.lower()                                              *)

LowerLetters ==
    <<"a","b","c","d","e","f","g","h","i","j","k","l","m",
      "n","o","p","q","r","s","t","u","v","w","x","y","z">>
UpperLetters ==
    <<"A","B","C","D","E","F","G","H","I","J","K","L","M",
      "N","O","P","Q","R","S","T","U","V","W","X","Y","Z">>

\* the ASCII case mappings
ToLower == [c \in {UpperLetters[i] : i \in DOMAIN UpperLetters} |->
              LowerLetters[CHOOSE i \in DOMAIN UpperLetters : UpperLetters[i] = c]]
ToUpper == [c \in {LowerLetters[i] : i \in DOMAIN LowerLetters} |->
              UpperLetters[CHOOSE i \in DOMAIN LowerLetters : LowerLetters[i] = c]]

\* U+0130 (capital I with dot above) is the one character whose lower case is
\* two characters: "i" followed by U+0307.
LowerChar(c) ==
    IF c \in DOMAIN ToLower THEN <<ToLower[c]>>
    ELSE IF c = "U+0130" THEN <<"i", "U+0307">>
    ELSE <<c>>

UpperChar(c) == IF c \in DOMAIN ToUpper THEN ToUpper[c] ELSE c

\* the option used as it was typed
lower_missing(s) == s

RECURSIVE lower(_)
lower(s) == IF s = <<>> THEN <<>> ELSE LowerChar(Head(s)) \o lower(Tail(s))

\* s with the characters at the positions in up upper-cased.
RECURSIVE RecaseFrom(_, _, _)
RecaseFrom(s, up, i) ==
    IF i > Len(s) THEN <<>>
    ELSE <<IF i \in up THEN UpperChar(s[i]) ELSE s[i]>> \o RecaseFrom(s, up, i + 1)
Recase(s, up) == RecaseFrom(s, up, 1)

\* s and t are the same string up to the case of ASCII letters.
SameUpToCase(s, t) ==
    /\ Len(s) = Len(t)
    /\ \A i \in DOMAIN s : UpperChar(s[i]) = UpperChar(t[i])

-----------------------------------------------------------------------------
(* argparse: the options, their defaults and their type conversions        *)

Options ==
    {"seed", "backend", "epoch", "batch_size", "learning_rule", "layer",
     "hidden", "firing_thresh", "learning_rate", "eprop_mode", "reg",
     "reg_coeff", "reg_target"}

IntOptions == {"seed", "epoch", "batch_size", "hidden", "reg_target"}
FloatOptions == {"firing_thresh", "learning_rate", "reg_coeff"}
StrOptions == {"backend", "learning_rule", "layer", "eprop_mode"}

DefaultEpoch == 30
DefaultBatchSize == 32
DefaultHidden == 200
DefaultFiringThresh == 100000
DefaultLearningRate == 100
DefaultRegCoeff == 5
DefaultRegTarget == 10

Defaults ==
    [seed |-> None,
     backend |-> <<"p","y","t","o","r","c","h">>,
     epoch |-> DefaultEpoch,
     batch_size |-> DefaultBatchSize,
     learning_rule |-> <<"e","p","r","o","p">>,
     layer |-> <<"A","L","I","F">>,
     hidden |-> DefaultHidden,
     firing_thresh |-> DefaultFiringThresh,
     learning_rate |-> DefaultLearningRate,
     eprop_mode |-> <<"a","d","a","p","t","i","v","e">>,
     reg |-> FALSE,
     reg_coeff |-> DefaultRegCoeff,
     reg_target |-> DefaultRegTarget]

\* a default that was never lower-cased into a key of its table
DefaultMisspelt(o) == [Defaults EXCEPT !.layer = <<"A","L","I","F","s">>][o]

Default(o) == Defaults[o]

Digits == <<"0","1","2","3","4","5","6","7","8","9">>
IsDigit(c) == \E i \in DOMAIN Digits : Digits[i] = c
DigitVal(c) == (CHOOSE i \in DOMAIN Digits : Digits[i] = c) - 1
AllDigits(s) == \A i \in DOMAIN s : IsDigit(s[i])

\* int(s) for a token of decimal digits.  The command lines below hold plain
\* digit tokens, plain decimals and tokens with a letter; signs, blanks,
\* underscores and exponents, which int() and float() also take, are not drawn.
RECURSIVE IntOf(_)
IntOf(s) ==
    IF s = <<>> THEN 0
    ELSE 10 * IntOf(SubSeq(s, 1, Len(s) - 1)) + DigitVal(s[Len(s)])
IsInt(s) == Len(s) > 0 /\ AllDigits(s)

\* float(s) for a token "<digits>.<digits>" with at most five decimals,
\* as a fixed-point number in units of 10^-5
RECURSIVE Pow10(_)
Pow10(k) == IF k = 0 THEN 1 ELSE 10 * Pow10(k - 1)
DotAt(s) == {i \in DOMAIN s : s[i] = "."}
IsFloat(s) ==
    /\ Cardinality(DotAt(s)) = 1
    /\ LET d == CHOOSE i \in DotAt(s) : TRUE
       IN /\ d > 1
          /\ d < Len(s)
          /\ Len(s) - d <= 5
          /\ AllDigits(SubSeq(s, 1, d - 1))
          /\ AllDigits(SubSeq(s, d + 1, Len(s)))
FloatOf(s) ==
    LET d == CHOOSE i \in DotAt(s) : TRUE
    IN IntOf(SubSeq(s, 1, d - 1)) * Pow10(5)
         + IntOf(SubSeq(s, d + 1, Len(s))) * Pow10(5 - (Len(s) - d))

\* the token of option o is accepted by the option's type
Accepts(o, tok) ==
    CASE o \in IntOptions -> IsInt(tok)
      [] o \in FloatOptions -> IsFloat(tok)
      [] OTHER -> TRUE

Convert(o, tok) ==
    CASE o \in IntOptions -> IntOf(tok)
      [] o \in FloatOptions -> FloatOf(tok)
      [] o = "reg" -> TRUE
      [] OTHER -> tok

\* parser.parse_args(): the Namespace's attributes
parse_args(a) ==
    [o \in Options |-> IF o \in DOMAIN a THEN Convert(o, a[o]) ELSE Default(o)]

-----------------------------------------------------------------------------
(* The dispatch tables, lines 36-38                                        *)

_layers ==
    (<<"r","n","n">> :> "BasicRNNModel")
    @@ (<<"l","i","f">> :> "LIFRNNModel")
    @@ (<<"a","l","i","f">> :> "ALIFRNNModel")

_learning_rules ==
    (<<"b","p","t","t">> :> "Backprop")
    @@ (<<"e","p","r","o","p">> :> "Eprop")

_backends ==
    (<<"t","o","r","c","h">> :> "pytb")
    @@ (<<"p","y","t","o","r","c","h">> :> "pytb")
    @@ (<<"p","y","t">> :> "pytb")
    @@ (<<"t","f">> :> "tfb")
    @@ (<<"t","e","n","s","o","r","f","l","o","w">> :> "tfb")

\* table[value.lower()], lines 39-41; KeyError when the key is missing
HasKey(table, value) == lower(value) \in DOMAIN table
Lookup(table, value) == table[lower(value)]

-----------------------------------------------------------------------------
(* The command lines a run is started with                                 *)

NoOptions == [o \in {} |-> <<>>]
Opt(o, toks) == {NoOptions} \cup {o :> t : t \in toks}

\* every spelling of w that differs from it only in case, capitals among the
\* first MaxCased characters
MaxCased == 7
AllSpellings(w) == {Recase(w, up) : up \in SUBSET (DOMAIN w \cap 1..MaxCased)}
OtherLayers == {<<"g","r","u">>, <<"a","l","i">>, <<"A","L","U+0130","F">>}
OtherLearningRules == {<<"r","t","r","l">>, <<"e","-","p","r","o","p">>}
OtherBackends == {<<"j","a","x">>, <<"t","o","r","c","h"," ">>}

EpropModes == {<<"R","a","n","d","o","m">>, <<"n","o","-","s","u","c","h">>}

\* lower case, upper case
SomeSpellings(w) == {w, Recase(w, DOMAIN w)}

\* the three dispatch options together, a few spellings of each name
DispatchLines ==
    {l @@ r @@ b :
        l \in Opt("layer", UNION {SomeSpellings(w) : w \in DOMAIN _layers}
                              \cup OtherLayers),
        r \in Opt("learning_rule",
                  UNION {SomeSpellings(w) : w \in DOMAIN _learning_rules}
                      \cup OtherLearningRules),
        b \in Opt("backend", UNION {SomeSpellings(w) : w \in DOMAIN _backends}
                                \cup OtherBackends)}

\* one dispatch option, every spelling of each name; --reg with the rules
SpellingLines ==
    Opt("layer", UNION {AllSpellings(w) : w \in DOMAIN _layers})
    \cup Opt("backend", UNION {AllSpellings(w) : w \in DOMAIN _backends})
    \cup {r @@ g :
            r \in Opt("learning_rule",
                      UNION {AllSpellings(w) : w \in DOMAIN _learning_rules}),
            g \in Opt("reg", {<<>>})}

\* the options that are passed through, with --learning_rule and --reg
SettingLines ==
    {r @@ g @@ m @@ e @@ rc @@ rt @@ u :
        r \in Opt("learning_rule", {<<"B","P","T","T">>}),
        g \in Opt("reg", {<<>>}),
        m \in Opt("eprop_mode", EpropModes),
        e \in Opt("epoch", {<<"1","2">>, <<"1","2","x">>}),
        rc \in Opt("reg_coeff", {<<"0",".","0","0","0","1">>}),
        rt \in Opt("reg_target", {<<"2","0">>}),
        u \in {NoOptions,
                 ("seed" :> <<"7">>) @@ ("batch_size" :> <<"6","4">>)
                 @@ ("hidden" :> <<"1","0","0">>)
                 @@ ("firing_thresh" :> <<"0",".","5">>)
                 @@ ("learning_rate" :> <<"0",".","0","1">>)}}

CommandLines == DispatchLines \cup SpellingLines \cup SettingLines

-----------------------------------------------------------------------------
(* What the external calls may return                                      *)

MaxPhns == 2
MaxLog == 2
MaxClock == 10

PhnCounts == 1..MaxPhns                       \* dataset.n_phns
Logs == {<<"log", i>> : i \in 1..MaxLog}       \* what trainer.train returns
Results == {<<"result", i>> : i \in 1..MaxLog} \* what evaluate returns
\* time.time(): whole seconds and whether a fraction follows
Times == [sec : 9..MaxClock, frac : BOOLEAN]

Unbound == [bound |-> FALSE]

-----------------------------------------------------------------------------
(* The run                                                                 *)

\* the statements of main() in program order; After(p) follows p
Order ==
    <<"parse_args", "dispatch", "load", "onehot", "loss", "assemble",
      "train", "evaluate", "persist">>

\* trainer.train behind a retry: the statement after the first call is train again
AfterRetry(p) ==
    IF p = "train" /\ train_calls = <<>> THEN "train"
    ELSE LET i == CHOOSE j \in DOMAIN Order : Order[j] = p
         IN IF i = Len(Order) THEN "done" ELSE Order[i + 1]

After(p) ==
    LET i == CHOOSE j \in DOMAIN Order : Order[j] = p
    IN IF i = Len(Order) THEN "done" ELSE Order[i + 1]

Init ==
    /\ argv \in CommandLines
    /\ pc = "parse_args"
    /\ error = NoError
    /\ heap = <<>>
    /\ args = 0
    /\ layer = None
    /\ learning_rule = None
    /\ n = None
    /\ dataset = Unbound
    /\ x_train = Unbound
    /\ y_train = Unbound
    /\ x_test = Unbound
    /\ y_test = Unbound
    /\ loss = Unbound
    /\ regularization_fn = Unbound
    /\ rnn = Unbound
    /\ evaluated_model = Unbound
    /\ algo = Unbound
    /\ trainer = Unbound
    /\ train_calls = <<>>
    /\ evaluate_calls = <<>>
    /\ training_log = Unbound
    /\ test_result = Unbound
    /\ completion_time = 0
    /\ task_log = 0
    /\ files = <<>>
    /\ trace = <<>>

dispatched == <<layer, learning_rule, n>>
tensors == <<dataset, x_train, y_train, x_test, y_test>>
losses == <<loss, regularization_fn>>
assembly == <<rnn, evaluated_model, algo, trainer>>
calls == <<train_calls, evaluate_calls, training_log, test_result>>
record == <<completion_time, task_log, files>>

\* an exception nothing catches ends the run where it was raised
Raise(kind) ==
    /\ error' = [at |-> pc, kind |-> kind]
    /\ pc' = "raised"
    /\ UNCHANGED trace

\* the statement at pc completed
Completed ==
    /\ pc' = After(pc)
    /\ trace' = Append(trace, pc)
    /\ UNCHANGED error

\* line 34, every option converted
ParseArgs ==
    /\ pc = "parse_args"
    /\ \A o \in DOMAIN argv : Accepts(o, argv[o])
    /\ args' = 1
    /\ heap' = (1 :> parse_args(argv))
    /\ Completed
    /\ UNCHANGED <<argv, dispatched, tensors, losses, assembly, calls, record>>

\* line 34, argparse rejects a token: parser.error() exits
ParseArgsExit ==
    /\ pc = "parse_args"
    /\ \E o \in DOMAIN argv : ~Accepts(o, argv[o])
    /\ Raise("SystemExit")
    /\ UNCHANGED <<argv, heap, args, dispatched, tensors, losses, assembly,
                   calls, record>>

\* lines 36-41, the three keys are present
Dispatch ==
    /\ pc = "dispatch"
    /\ HasKey(_layers, heap[args].layer)
    /\ HasKey(_learning_rules, heap[args].learning_rule)
    /\ HasKey(_backends, heap[args].backend)
    /\ layer' = Lookup(_layers, heap[args].layer)
    /\ learning_rule' = Lookup(_learning_rules, heap[args].learning_rule)
    /\ n' = Lookup(_backends, heap[args].backend)
    /\ Completed
    /\ UNCHANGED <<argv, heap, args, tensors, losses, assembly, calls, record>>

\* dict.get with a fallback in place of the subscript: nothing is raised
DispatchWithFallback ==
    /\ pc = "dispatch"
    /\ \/ ~HasKey(_layers, heap[args].layer)
       \/ ~HasKey(_learning_rules, heap[args].learning_rule)
       \/ ~HasKey(_backends, heap[args].backend)
    /\ layer' = IF HasKey(_layers, heap[args].layer)
                THEN Lookup(_layers, heap[args].layer) ELSE "ALIFRNNModel"
    /\ learning_rule' = IF HasKey(_learning_rules, heap[args].learning_rule)
                        THEN Lookup(_learning_rules, heap[args].learning_rule)
                        ELSE "Eprop"
    /\ n' = IF HasKey(_backends, heap[args].backend)
            THEN Lookup(_backends, heap[args].backend) ELSE "pytb"
    /\ Completed
    /\ UNCHANGED <<argv, heap, args, tensors, losses, assembly, calls, record>>

\* lines 39-41, the first missing key raises; the lookups before it are bound
DispatchKeyError ==
    /\ pc = "dispatch"
    /\ \/ /\ ~HasKey(_layers, heap[args].layer)
          /\ UNCHANGED dispatched
       \/ /\ HasKey(_layers, heap[args].layer)
          /\ ~HasKey(_learning_rules, heap[args].learning_rule)
          /\ layer' = Lookup(_layers, heap[args].layer)
          /\ UNCHANGED <<learning_rule, n>>
       \/ /\ HasKey(_layers, heap[args].layer)
          /\ HasKey(_learning_rules, heap[args].learning_rule)
          /\ ~HasKey(_backends, heap[args].backend)
          /\ layer' = Lookup(_layers, heap[args].layer)
          /\ learning_rule' = Lookup(_learning_rules, heap[args].learning_rule)
          /\ UNCHANGED n
    /\ Raise("KeyError")
    /\ UNCHANGED <<argv, heap, args, tensors, losses, assembly, calls, record>>

\* what astype(np.float32) leaves of one array of a batch
Tensor(split, role) ==
    [split |-> split, role |-> role, dtype |-> "float32", depth |-> 0, by |-> None]

\* n.categorical_to_onehot(y, k) of backend b
categorical_to_onehot(b, y, k) == [y EXCEPT !.depth = k, !.by = b]

\* lines 44-51
LoadDataset ==
    /\ pc = "load"
    /\ \E k \in PhnCounts :
          dataset' = [batch_size |-> 32, data_path |-> "timit_processed",
                      preproc |-> "mfccs", use_reduced_phonem_set |-> FALSE,
                      n_phns |-> k]
    /\ x_train' = Tensor("train", "x")
    /\ y_train' = Tensor("train", "y")
    /\ x_test' = Tensor("test", "x")
    /\ y_test' = Tensor("test", "y")
    /\ Completed
    /\ UNCHANGED <<argv, heap, args, dispatched, losses, assembly, calls, record>>

\* lines 44-51, TimitDataset or a get_*_batch raises
LoadDatasetRaises ==
    /\ pc = "load"
    /\ Raise("Exception")
    /\ UNCHANGED <<argv, heap, args, dispatched, tensors, losses, assembly,
                   calls, record>>

\* the depth of the one-hot encoding, lines 52 and 53
onehot_depth == dataset.n_phns

\* lines 52-53
OneHot ==
    /\ pc = "onehot"
    /\ y_train' = categorical_to_onehot(n, y_train, onehot_depth)
    /\ y_test' = categorical_to_onehot(n, y_test, onehot_depth)
    /\ Completed
    /\ UNCHANGED <<argv, heap, args, dispatched, dataset, x_train, x_test,
                   losses, assembly, calls, record>>

OneHotRaises ==
    /\ pc = "onehot"
    /\ Raise("Exception")
    /\ UNCHANGED <<argv, heap, args, dispatched, tensors, losses, assembly,
                   calls, record>>

\* get_loss(name, backend=b, **kw)
get_loss(name, b, kw) == [name |-> name, backend |-> b, kw |-> kw]

\* the comparison without .lower()
with_reg_as_typed ==
    /\ heap[args].learning_rule = <<"b","p","t","t">>
    /\ heap[args].reg

\* the condition of line 55
with_reg ==
    /\ lower(heap[args].learning_rule) = <<"b","p","t","t">>
    /\ heap[args].reg

\* lines 56-63: loss_with_reg closes over loss_fn, regularization_fn and args
BuildLossWithReg ==
    /\ pc = "loss"
    /\ with_reg
    /\ regularization_fn' =
          get_loss("firing_rate_regularization", n,
                   [firing_rate_target |-> heap[args].reg_target])
    /\ loss' = [def |-> "loss_with_reg",
                loss_fn |-> get_loss("categorical_crossentropy", n, <<>>),
                regularization_fn |-> regularization_fn',
                args |-> args]
    /\ Completed
    /\ UNCHANGED <<argv, heap, args, dispatched, tensors, assembly, calls, record>>

\* lines 56-57, get_loss raises
BuildLossRaises ==
    /\ pc = "loss"
    /\ with_reg
    /\ Raise("Exception")
    /\ UNCHANGED <<argv, heap, args, dispatched, tensors, losses, assembly,
                   calls, record>>

\* line 65
BuildLossPlain ==
    /\ pc = "loss"
    /\ ~with_reg
    /\ loss' = [name |-> "categorical_crossentropy"]
    /\ Completed
    /\ UNCHANGED <<argv, heap, args, dispatched, tensors, regularization_fn,
                   assembly, calls, record>>

\* the layer width passed as the number of classes
output_size_hidden == heap[args].hidden

\* output_size of line 66
output_size == dataset.n_phns

\* c_reg and f_target passed the wrong way round
learning_rule_kwargs_swapped ==
    [optimizer |-> [class |-> "Adam", learning_rate |-> heap[args].learning_rate],
     mode |-> heap[args].eprop_mode,
     firing_rate_regularization |-> heap[args].reg,
     c_reg |-> heap[args].reg_target,
     f_target |-> heap[args].reg_coeff]

\* the keyword arguments of lines 70-74
learning_rule_kwargs ==
    [optimizer |-> [class |-> "Adam", learning_rate |-> heap[args].learning_rate],
     mode |-> heap[args].eprop_mode,
     firing_rate_regularization |-> heap[args].reg,
     c_reg |-> heap[args].reg_coeff,
     f_target |-> heap[args].reg_target]

\* lines 66-75
Assemble ==
    /\ pc = "assemble"
    /\ rnn' = [class |-> layer, hidden |-> heap[args].hidden,
               output_size |-> output_size, backend |-> n,
               task_type |-> "classification", return_sequence |-> TRUE,
               v_th |-> heap[args].firing_thresh, seed |-> heap[args].seed]
    /\ evaluated_model' = [model |-> rnn', loss |-> loss,
                           metrics |-> <<"accuracy", "firing_rate">>]
    /\ algo' = [class |-> learning_rule, model |-> evaluated_model',
                kwargs |-> learning_rule_kwargs]
    /\ trainer' = [algo |-> algo']
    /\ Completed
    /\ UNCHANGED <<argv, heap, args, dispatched, tensors, losses, calls, record>>

\* lines 66-75, one of the constructors raises
AssembleRaises ==
    /\ pc = "assemble"
    /\ Raise("Exception")
    /\ UNCHANGED <<argv, heap, args, dispatched, tensors, losses, assembly,
                   calls, record>>

\* the arguments of trainer.train, lines 76-77
train_call ==
    [x |-> x_train, y |-> y_train, epochs |-> heap[args].epoch,
     batch_size |-> heap[args].batch_size, validation_data |-> <<x_test, y_test>>]

\* lines 76-77
Train ==
    /\ pc = "train"
    /\ train_calls' = Append(train_calls, train_call)
    /\ training_log' \in Logs
    /\ Completed
    /\ UNCHANGED <<argv, heap, args, dispatched, tensors, losses, assembly,
                   evaluate_calls, test_result, record>>

\* the call wrapped in try / except: pass, the log left as None
TrainRaisesCaught ==
    /\ pc = "train"
    /\ train_calls' = Append(train_calls, train_call)
    /\ Completed
    /\ UNCHANGED <<argv, heap, args, dispatched, tensors, losses, assembly,
                   evaluate_calls, training_log, test_result, record>>

TrainRaises ==
    /\ pc = "train"
    /\ train_calls' = Append(train_calls, train_call)
    /\ Raise("Exception")
    /\ UNCHANGED <<argv, heap, args, dispatched, tensors, losses, assembly,
                   evaluate_calls, training_log, test_result, record>>

\* the arguments of evaluated_model.evaluate, line 78
evaluate_call == [x |-> x_test, y |-> y_test, return_nparray |-> TRUE]

\* lines 78-79
Evaluate ==
    /\ pc = "evaluate"
    /\ evaluate_calls' = Append(evaluate_calls, evaluate_call)
    /\ test_result' \in Results
    /\ Completed
    /\ UNCHANGED <<argv, heap, args, dispatched, tensors, losses, assembly,
                   train_calls, training_log, record>>

EvaluateRaises ==
    /\ pc = "evaluate"
    /\ evaluate_calls' = Append(evaluate_calls, evaluate_call)
    /\ Raise("Exception")
    /\ UNCHANGED <<argv, heap, args, dispatched, tensors, losses, assembly,
                   train_calls, training_log, test_result, record>>

\* int(t) of a time.time() reading
int(t) == t.sec

\* str(k) of a natural number, as the f-string formats it
RECURSIVE str(_)
str(k) == IF k < 10 THEN <<Digits[k + 1]>> ELSE str(k \div 10) \o <<Digits[(k % 10) + 1]>>

\* f'timit_{t}.pkl'
file_name(t) == <<"t","i","m","i","t","_">> \o str(t) \o <<".","p","k","l">>

\* dict(vars(o)): a new mapping
vars_copy(o) == o + 1

\* vars(o): the __dict__ of o itself, not a copy
vars_(o) == o

\* d[k] = v
setitem(d, k, v) == [x \in DOMAIN d \cup {k} |-> IF x = k THEN v ELSE d[x]]

\* the log and the test result stored under each other's key
task_log_entries_swapped(d, t) ==
    setitem(setitem(setitem(setitem(d, "name", "timit"),
                            "log", test_result),
                    "completion_time", t),
            "test_result", training_log)

\* the mapping of lines 81-85 for completion time t
task_log_entries(d, t) ==
    setitem(setitem(setitem(setitem(d, "name", "timit"),
                            "log", training_log),
                    "completion_time", t),
            "test_result", test_result)

\* lines 80-85: the time is read, the mapping behind task_log is extended
FillTaskLog(t) ==
    /\ completion_time' = t
    /\ task_log' = vars_(args)
    /\ heap' = setitem(heap, task_log',
                       task_log_entries(IF task_log' \in DOMAIN heap
                                        THEN heap[task_log'] ELSE heap[args], t))

\* lines 80-87
Persist ==
    /\ pc = "persist"
    /\ \E now \in Times :
          /\ FillTaskLog(int(now))
          /\ files' = setitem(files, file_name(completion_time'), heap'[task_log'])
    /\ Completed
    /\ UNCHANGED <<argv, args, dispatched, tensors, losses, assembly, calls>>

\* lines 80-87, open raises (no file) or pickle.dump raises (the file is empty)
PersistRaises ==
    /\ pc = "persist"
    /\ \E now \in Times :
          /\ FillTaskLog(int(now))
          /\ \/ UNCHANGED files
             \/ files' = setitem(files, file_name(completion_time'), <<>>)
    /\ Raise("Exception")
    /\ UNCHANGED <<argv, args, dispatched, tensors, losses, assembly, calls>>

Next ==
    \/ ParseArgs
    \/ ParseArgsExit
    \/ Dispatch
    \/ DispatchKeyError
    \/ LoadDataset
    \/ LoadDatasetRaises
    \/ OneHot
    \/ OneHotRaises
    \/ BuildLossWithReg
    \/ BuildLossRaises
    \/ BuildLossPlain
    \/ Assemble
    \/ AssembleRaises
    \/ Train
    \/ TrainRaises
    \/ Evaluate
    \/ EvaluateRaises
    \/ Persist
    \/ PersistRaises

Spec == Init /\ [][Next]_vars

-----------------------------------------------------------------------------
(* Properties                                                              *)

Range(f) == {f[i] : i \in DOMAIN f}
parsed == parse_args(argv)
Bound(v) == v # Unbound

\* The implementation each listed name stands for, whatever its case; None
\* for every other value.  Written without str.lower().
ListedLayer(tok) ==
    CASE SameUpToCase(tok, <<"r","n","n">>) -> "BasicRNNModel"
      [] SameUpToCase(tok, <<"l","i","f">>) -> "LIFRNNModel"
      [] SameUpToCase(tok, <<"a","l","i","f">>) -> "ALIFRNNModel"
      [] OTHER -> None
ListedLearningRule(tok) ==
    CASE SameUpToCase(tok, <<"b","p","t","t">>) -> "Backprop"
      [] SameUpToCase(tok, <<"e","p","r","o","p">>) -> "Eprop"
      [] OTHER -> None
ListedBackend(tok) ==
    CASE SameUpToCase(tok, <<"t","o","r","c","h">>) -> "pytb"
      [] SameUpToCase(tok, <<"p","y","t","o","r","c","h">>) -> "pytb"
      [] SameUpToCase(tok, <<"p","y","t">>) -> "pytb"
      [] SameUpToCase(tok, <<"t","f">>) -> "tfb"
      [] SameUpToCase(tok, <<"t","e","n","s","o","r","f","l","o","w">>) -> "tfb"
      [] OTHER -> None

\* one of the three dispatch options, lower-cased, is not a key of its table
MissingKey ==
    \/ lower(heap[args].layer) \notin DOMAIN _layers
    \/ lower(heap[args].learning_rule) \notin DOMAIN _learning_rules
    \/ lower(heap[args].backend) \notin DOMAIN _backends

NothingAfterDispatch ==
    /\ dataset = Unbound /\ x_train = Unbound /\ y_train = Unbound
    /\ x_test = Unbound /\ y_test = Unbound
    /\ loss = Unbound /\ regularization_fn = Unbound
    /\ rnn = Unbound /\ evaluated_model = Unbound
    /\ algo = Unbound /\ trainer = Unbound
    /\ train_calls = <<>> /\ evaluate_calls = <<>>
    /\ training_log = Unbound /\ test_result = Unbound
    /\ files = <<>>

\* C1: a run in which --layer, --learning_rule or --backend, lower-cased, is
\* not a key of its table ends at dispatch with a KeyError: after any step of
\* such a run main() is at dispatch or has raised KeyError there, the dataset
\* is not loaded, no model is built, trainer.train is not called and no file
\* is written; and no step is taken once the error is raised (no retry).
C1_LookupErrorEndsRun ==
    [][/\ pc # "raised"
       /\ (args' # 0 /\ MissingKey') =>
            /\ pc' \in {"dispatch", "raised"}
            /\ pc' = "raised" => error' = [at |-> "dispatch", kind |-> "KeyError"]
            /\ pc = "dispatch" => pc' = "raised"
            /\ trace' = <<"parse_args">>
            /\ NothingAfterDispatch']_vars

\* a valid layer and learning rule followed by an unknown backend
C1_Witness ==
    /\ pc = "raised"
    /\ error = [at |-> "dispatch", kind |-> "KeyError"]
    /\ layer = "LIFRNNModel"
    /\ learning_rule = "Backprop"
    /\ heap[args].backend = <<"j","a","x">>

IsPrefix(t, q) == Len(t) <= Len(q) /\ \A i \in DOMAIN t : t[i] = q[i]

\* C2: the stages run in the order parse, dispatch, dataset load and
\* normalisation, loss, assembly, train, evaluate, persist: the completed
\* stages are always an initial part of that order without repetition, the
\* stage main() is at is the next one, the effects of a stage are present only
\* when its predecessor's are, trainer.train is called at most once, and exactly
\* once in a run that reached persistence.
C2_FixedOrder ==
    /\ IsPrefix(trace, Order)
    /\ pc \in Range(Order) => Len(trace) < Len(Order) /\ Order[Len(trace) + 1] = pc
    /\ pc = "done" => trace = Order
    /\ n # None => args # 0
    /\ Bound(dataset) => n # None
    /\ (Bound(y_train) /\ y_train.depth > 0) => Bound(dataset)
    /\ Bound(loss) => (Bound(y_train) /\ y_train.depth > 0)
    /\ Bound(trainer) => Bound(loss)
    /\ train_calls # <<>> => Bound(trainer)
    /\ Bound(training_log) => train_calls # <<>>
    /\ evaluate_calls # <<>> => Bound(training_log)
    /\ Bound(test_result) => evaluate_calls # <<>>
    /\ (task_log # 0 \/ files # <<>>) => Bound(test_result)
    /\ Len(train_calls) <= 1
    /\ Len(evaluate_calls) <= 1
    /\ (pc \in {"persist", "done"} \/ (pc = "raised" /\ error.at = "persist"))
          => Len(train_calls) = 1

C2_Witness == pc = "done" /\ Len(train_calls) = 1 /\ trace = Order

AfterDispatch == {"load", "onehot", "loss", "assemble", "train", "evaluate"}

\* C3: a failure of a stage after dispatch is not caught: the step in which
\* the stage raises ends the run in the error state at that stage, with the
\* completed stages unchanged and no file written, and no step follows it; a
\* file exists only when trainer.train and evaluate have both returned.
C3_FailurePropagates ==
    [][/\ pc # "raised"
       /\ (pc \in AfterDispatch /\ trace' = trace) =>
            /\ pc' = "raised"
            /\ error' = [at |-> pc, kind |-> "Exception"]
            /\ files' = <<>>
            /\ task_log' = 0
       /\ files' # <<>> =>
            /\ Len(train_calls') = 1 /\ training_log' # Unbound
            /\ Len(evaluate_calls') = 1 /\ test_result' # Unbound]_vars

\* training raised after the model was assembled
C3_Witness ==
    /\ pc = "raised"
    /\ error = [at |-> "train", kind |-> "Exception"]
    /\ Len(train_calls) = 1
    /\ Bound(trainer)
    /\ files = <<>>

RecordKeys == {"name", "log", "completion_time", "test_result"}

\* the digits between "timit_" and ".pkl" in a file name, <<>> when the name
\* has not that form
Stamp(f) ==
    IF /\ Len(f) > 10
       /\ SubSeq(f, 1, 6) = <<"t","i","m","i","t","_">>
       /\ SubSeq(f, Len(f) - 3, Len(f)) = <<".","p","k","l">>
    THEN SubSeq(f, 7, Len(f) - 4)
    ELSE <<>>

\* C4: a completed run has written exactly one file; its name is
\* timit_<t>.pkl, t the decimal form of the completion time, which was read
\* after evaluate returned; the mapping in the file holds every option with
\* its parsed value, name = 'timit', log = what trainer.train returned,
\* completion_time = t and test_result = what evaluate returned.
C4_ResultFile ==
    /\ completion_time # 0 => (Len(evaluate_calls) = 1 /\ test_result \in Results)
    /\ pc = "done" =>
         /\ Cardinality(DOMAIN files) = 1
         /\ \A f \in DOMAIN files :
              /\ IsInt(Stamp(f))
              /\ IntOf(Stamp(f)) = completion_time
              /\ completion_time \in 9..MaxClock
              /\ Options \cup RecordKeys \subseteq DOMAIN files[f]
              /\ \A o \in Options : files[f][o] = parsed[o]
              /\ files[f]["name"] = "timit"
              /\ files[f]["log"] = training_log
              /\ training_log \in Logs
              /\ files[f]["completion_time"] = completion_time
              /\ files[f]["test_result"] = test_result
              /\ test_result \in Results

\* a completed run whose completion time has two digits
C4_Witness ==
    /\ pc = "done"
    /\ completion_time = 10
    /\ \E f \in DOMAIN files : Stamp(f) = <<"1","0">> /\ files[f]["log"] \in Logs

IsRegularized(l) == "def" \in DOMAIN l /\ l.def = "loss_with_reg"

\* C5: the loss given to the Evaluator is loss_with_reg (categorical
\* cross-entropy plus args.reg_coeff times the firing-rate regularisation
\* built with target args.reg_target) exactly when --learning_rule is bptt in
\* some case and --reg is set; otherwise it is the name
\* 'categorical_crossentropy' and no regularisation function was built.
C5_LossChoice ==
    Bound(loss) =>
        /\ IsRegularized(loss)
             <=> (SameUpToCase(parsed.learning_rule, <<"b","p","t","t">>)
                  /\ "reg" \in DOMAIN argv)
        /\ IsRegularized(loss) =>
             /\ loss.loss_fn = [name |-> "categorical_crossentropy",
                                backend |-> n, kw |-> <<>>]
             /\ loss.regularization_fn =
                  [name |-> "firing_rate_regularization", backend |-> n,
                   kw |-> [firing_rate_target |-> parsed.reg_target]]
             /\ regularization_fn = loss.regularization_fn
             /\ heap[loss.args].reg_coeff = parsed.reg_coeff
        /\ ~IsRegularized(loss) =>
             /\ loss = [name |-> "categorical_crossentropy"]
             /\ regularization_fn = Unbound
        /\ Bound(evaluated_model) => evaluated_model.loss = loss

\* BPTT in capitals with --reg and non-default coefficient and target
C5_Witness ==
    /\ Bound(evaluated_model)
    /\ IsRegularized(evaluated_model.loss)
    /\ argv["learning_rule"] = <<"B","P","T","T">>
    /\ heap[args].reg_coeff = 10
    /\ heap[args].reg_target = 20

\* C6: once the lookups of lines 39-41 have run, each option whose value is a
\* listed name in any case has selected that name's implementation, the same
\* for every spelling, and an option with any other value has selected none:
\* the run raised KeyError at the first such option.
C6_DispatchByName ==
    (args # 0 /\ pc # "dispatch") =>
        LET l == ListedLayer(heap[args].layer)
            r == ListedLearningRule(heap[args].learning_rule)
            b == ListedBackend(heap[args].backend)
            failed == pc = "raised" /\ error = [at |-> "dispatch", kind |-> "KeyError"]
        IN /\ layer = l
           /\ learning_rule = IF l = None THEN None ELSE r
           /\ n = IF l = None \/ r = None THEN None ELSE b
           /\ failed <=> (l = None \/ r = None \/ b = None)

\* a mixed-case spelling of the longest name
C6_Witness ==
    /\ pc = "load"
    /\ heap[args].backend = <<"T","e","n","s","o","R","f","l","o","w">>
    /\ n = "tfb"

\* C7: both label tensors are one-hot encoded by the selected backend with
\* depth dataset.n_phns, the model's output_size is that same number, and the
\* validation data of the training call are the tensors evaluate is called
\* with.
C7_OneClassCount ==
    /\ "onehot" \in Range(trace) =>
         /\ y_train.depth = dataset.n_phns /\ y_train.by = n
         /\ y_test.depth = dataset.n_phns /\ y_test.by = n
         /\ y_train.split = "train" /\ y_test.split = "test"
    /\ Bound(rnn) =>
         /\ rnn.output_size = dataset.n_phns
         /\ rnn.output_size = y_train.depth
         /\ rnn.output_size = y_test.depth
    /\ train_calls # <<>> =>
         /\ train_calls[1].validation_data = <<x_test, y_test>>
         /\ train_calls[1].y = y_train
    /\ evaluate_calls # <<>> =>
         train_calls[1].validation_data = <<evaluate_calls[1].x, evaluate_calls[1].y>>

C7_Witness ==
    /\ evaluate_calls # <<>>
    /\ rnn.output_size = MaxPhns
    /\ evaluate_calls[1].y.depth = MaxPhns

\* C8: a run without arguments does not fail at parsing or dispatch: it
\* selects ALIFRNNModel, Eprop and the PyTorch backend, and its loss is the
\* name 'categorical_crossentropy'.
C8_DefaultsResolve ==
    argv = NoOptions =>
        /\ ~(pc = "raised" /\ error.at \in {"parse_args", "dispatch"})
        /\ pc \notin {"parse_args", "dispatch"} =>
             /\ layer = "ALIFRNNModel"
             /\ learning_rule = "Eprop"
             /\ n = "pytb"
        /\ Bound(loss) => loss = [name |-> "categorical_crossentropy"]
        /\ Bound(evaluated_model) =>
             evaluated_model.loss = [name |-> "categorical_crossentropy"]

C8_Witness ==
    /\ argv = NoOptions
    /\ pc = "done"
    /\ rnn.class = "ALIFRNNModel"
    /\ algo.class = "Eprop"
    /\ rnn.backend = "pytb"

\* C9: task_log is args.__dict__ itself, extended with name, log,
\* completion_time and test_result; none of the four is an option, so the
\* written record holds every option with its parsed value; and until
\* evaluate has returned args is exactly what parse_args returned.
C9_RecordIsArgs ==
    /\ RecordKeys \cap Options = {}
    /\ (args # 0 /\ test_result = Unbound) => heap[args] = parsed
    /\ task_log # 0 =>
         /\ task_log = args
         /\ DOMAIN heap = {args}
         /\ DOMAIN heap[args] = Options \cup RecordKeys
         /\ \A o \in Options : heap[args][o] = parsed[o]
    /\ pc = "done" =>
         \A f \in DOMAIN files :
             /\ files[f] = heap[args]
             /\ \A o \in Options : files[f][o] = parsed[o]

\* a completed run with typed numeric options
C9_Witness ==
    /\ pc = "done"
    /\ task_log = args
    /\ "seed" \in DOMAIN argv
    /\ \E f \in DOMAIN files : files[f]["seed"] = 7 /\ files[f]["epoch"] = 12

\* C10: whichever rule is selected it is constructed with mode =
\* --eprop_mode, firing_rate_regularization = --reg, c_reg = --reg_coeff,
\* f_target = --reg_target and Adam(learning_rate = --learning_rate); so with
\* the regularised loss the flag passed is true; and a run fails at dispatch
\* only when --layer, --learning_rule or --backend is no listed name, whatever
\* --eprop_mode is.
C10_LearningRuleSettings ==
    /\ Bound(algo) =>
         /\ algo.class = learning_rule
         /\ algo.class = ListedLearningRule(parsed.learning_rule)
         /\ algo.kwargs.mode = parsed.eprop_mode
         /\ algo.kwargs.firing_rate_regularization = ("reg" \in DOMAIN argv)
         /\ algo.kwargs.c_reg = parsed.reg_coeff
         /\ algo.kwargs.f_target = parsed.reg_target
         /\ algo.kwargs.optimizer =
              [class |-> "Adam", learning_rate |-> parsed.learning_rate]
         /\ IsRegularized(algo.model.loss) => algo.kwargs.firing_rate_regularization
    /\ (pc = "raised" /\ error.at = "dispatch") =>
         \/ ListedLayer(parsed.layer) = None
         \/ ListedLearningRule(parsed.learning_rule) = None
         \/ ListedBackend(parsed.backend) = None

\* Backprop with the regularised loss and an eprop mode no rule knows
C10_Witness ==
    /\ Bound(algo)
    /\ algo.class = "Backprop"
    /\ IsRegularized(algo.model.loss)
    /\ algo.kwargs.mode = <<"n","o","-","s","u","c","h">>
    /\ algo.kwargs.c_reg = 10
    /\ algo.kwargs.f_target = 20

====
